---- MODULE Spec2Model ----
(***************************************************************************)
(* VideoRecorder (src/app.py): one recorder instance, the foreground       *)
(* caller issuing start_recording / stop_recording, and the background     *)
(* threads running _record_loop.  The k-th start_recording call creates    *)
(* the k-th cv2.VideoWriter object and (when it gets that far) the k-th    *)
(* threading.Thread object, so writers and threads are both numbered by    *)
(* the call that made them; 0 stands for None.                             *)
(***************************************************************************)
EXTENDS Integers, Sequences, FiniteSets, TLC

\* Bounds of the model.
MaxStarts == 2      \* start_recording calls made on the instance
MaxFrames == 2      \* cycles begun by all threads together
MaxDim == 3         \* Region arguments are drawn from -1..MaxDim
MaxRecordings == 2  \* VideoRecorder objects the application creates
MaxGrid == 2        \* pointer coordinates: 0..MaxGrid half minimum selections
MaxTime == 20       \* the paced loop is followed up to this clock value
MaxWork == 10       \* ticks a capture, conversion and write take at most
MaxOversleep == 1   \* ticks _precise_sleep returns late at most
MaxSide == 5        \* widths and heights of recorded regions and of captures

\* Clock ticks in a second: every frame interval is a whole number of ticks.
TicksPerSecond == 120

\* Line 468: the frame rates offered.
FpsChoices == {15, 24, 30, 60}

\* Line 338: the smallest width and height a selection may have.
MinSelection == 10

Sessions == 1..MaxStarts

VARIABLES
    writer,            \* self.writer: 0 (None) or the writer object
    opens,             \* writer object -> number of times it was opened
    releases,          \* writer object -> number of release() calls made on it
    stop_event,        \* self.stop_event
    recording_thread,  \* self._recording_thread: 0 (None) or the thread object
    tpc,               \* thread -> position in _record_loop
    frame_count,       \* thread -> local frame_count
    held,              \* thread -> capture number of the frame it holds unwritten, 0 if none
    tw,                \* thread -> writer object its write call in progress was issued on
    wlog,              \* writer object -> capture numbers of the frames stored, in order
    ncaptures,         \* screenshots taken so far by all threads
    nstarts,           \* start_recording calls begun
    cpc,               \* position of the foreground caller
    success,           \* local `success` of stop_recording
    ret,               \* last return executed: [line of the return statement, value]
    joinAlive,         \* in stop_recording after join: was the thread alive when join was over
    wrAfterSet,        \* running thread -> frames it has written since stop_event was set
    reacted,           \* in stop_recording: the thread has taken a step since line 145 found it alive
    is_stopped,        \* thread object -> a join that raised has marked it as stopped
    region,            \* self.region
    fps,               \* self.fps
    filename,          \* self.filename
    args,              \* Region under test: the arguments <<x, y, width, height>>
    obj,               \* Region under test: what the constructor gave
    even,              \* Region under test: what make_even_dimensions gave
    state,             \* ScreenCaptureApp.state
    recorder,          \* ScreenCaptureApp.recorder: 0 (None) or the VideoRecorder object
    recs,              \* VideoRecorder object -> its thread, stop_event and writer
    nrec,              \* VideoRecorder objects created by the application
    root,              \* the main window: "normal", "withdrawn" or "destroyed"
    finished,          \* ScreenCaptureApp.run has returned
    mode,              \* the on_selection closure the RegionSelector holds as callback
    window,            \* RegionSelector.window is not None
    start_pos,         \* RegionSelector.start_pos
    rect_id,           \* RegionSelector.rect_id is not None
    warned,            \* the RegionSelector has shown its warning (line 345)
    calls,             \* times the RegionSelector has invoked its callback
    ui,                \* where the Tk thread is: in mainloop ("main"), waiting in
                       \* a dialog or a join, or between two steps of a handler
    ctx,               \* the caller of the stop_recording call in progress
    stop_ok,           \* local `success` of that stop_recording call
    pace,              \* the loop in time: clock, next_frame_time, frame_interval,
                       \* frame_count, position, times of the last two writes
    vid                \* the frames: the writer's frame size, the shape the
                       \* frame source returned, the shape handed to write

\* The VideoRecorder under study and its threads.
recVars == <<writer, opens, releases, stop_event, recording_thread, tpc,
             frame_count, held, tw, wlog, ncaptures, nstarts, cpc, success,
             ret, joinAlive, wrAfterSet, reacted, is_stopped, region, fps,
             filename>>

regionVars == <<args, obj, even>>

appVars == <<state, recorder, recs, nrec, root, finished, mode, window,
             start_pos, rect_id, warned, calls, ui, ctx, stop_ok>>

\* What no method of the recorder and no step of its loop assigns: the
\* fields set in __init__ alone, and the state of the other objects.
otherVars == <<region, fps, filename, regionVars, appVars, pace, vid>>

vars == <<recVars, regionVars, appVars, pace, vid>>

callerVars == <<writer, opens, releases, stop_event, recording_thread,
                nstarts, cpc, success, ret, joinAlive, is_stopped>>

loopVars == <<tpc, frame_count, held, tw, wlog, ncaptures, wrAfterSet>>

(***************************************************************************)
(* Region.                                                                 *)
(***************************************************************************)
\* The exception raised by Region.__post_init__.
ValueError == [exc |-> "ValueError"]

\* Nothing yet: the call has not been made.
Unset == [unset |-> TRUE]

\* __post_init__ without its second test.
RegionNoCoordinateTest(x, y, width, height) ==
    IF width <= 0 \/ height <= 0 THEN ValueError
    ELSE [x |-> x, y |-> y, width |-> width, height |-> height]

\* Lines 33-46: the dataclass constructor followed by __post_init__.
Region(x, y, width, height) ==
    IF width <= 0 \/ height <= 0 THEN ValueError
    ELSE IF x < 0 \/ y < 0 THEN ValueError
    ELSE [x |-> x, y |-> y, width |-> width, height |-> height]

\* Lines 48-51.
as_tuple(r) == <<r.x, r.y, r.width, r.height>>

\* Lines 53-60: a new Region is constructed, so __post_init__ runs on it.
make_even_dimensions(r) ==
    Region(r.x, r.y, r.width - (r.width % 2), r.height - (r.height % 2))

\* Thread t has been started and its _record_loop has not returned: it is in
\* a cycle, or it has left the loop (the flag was seen set: "exiting"; an
\* exception was raised: "failing") and has lines 205-208 before it.
Running(t) ==
    /\ t \in Sessions
    /\ tpc[t] \in {"check", "capture", "writing", "exiting", "failing"}

\* Thread.is_alive() on thread object t: started, not ended, and not marked
\* as stopped.  threading.Thread.join marks the thread as stopped when the
\* wait on its lock raises (OverflowError for a timeout too large for the
\* platform), although its loop goes on.
Alive(t) ==
    /\ Running(t)
    /\ ~is_stopped[t]

RunningThreads == {t \in Sessions : Running(t)}

\* No Region under test.
RegionIdle ==
    /\ args = <<0, 0, 1, 1>>
    /\ obj = Unset
    /\ even = Unset

\* The value of a field that holds None.
None == <<>>

\* A VideoRecorder the application has not created yet.
NoRecorder ==
    [thread |-> "none", stop_event |-> FALSE, writer |-> "none", stopped |-> FALSE]

Recorders == 1..MaxRecordings

\* Lines 378-387 and 244-250: the application after __init__, no selector.
AppIdle ==
    /\ state = "IDLE"
    /\ recorder = 0
    /\ recs = [i \in Recorders |-> NoRecorder]
    /\ nrec = 0
    /\ root = "normal"
    /\ finished = FALSE
    /\ mode = "none"
    /\ window = FALSE
    /\ start_pos = None
    /\ rect_id = FALSE
    /\ warned = FALSE
    /\ calls = 0
    /\ ui = "main"
    /\ ctx = "none"
    /\ stop_ok = FALSE

\* No loop is followed in time.
PaceIdle ==
    pace = [clock |-> 0, next_frame_time |-> 0, frame_interval |-> 0,
            frame_count |-> 0, pc |-> "off", written |-> <<>>, on_time |-> TRUE]

\* No frame sizes are followed.
VidIdle ==
    vid = [pc |-> "off", size |-> None, source |-> None, frame |-> None]

\* Lines 107-111, fps apart.
RecorderParts ==
    /\ writer = 0
    /\ opens = [w \in Sessions |-> 0]
    /\ releases = [w \in Sessions |-> 0]
    /\ stop_event = FALSE
    /\ recording_thread = 0
    /\ tpc = [t \in Sessions |-> "unborn"]
    /\ frame_count = [t \in Sessions |-> 0]
    /\ held = [t \in Sessions |-> 0]
    /\ tw = [t \in Sessions |-> 0]
    /\ wlog = [w \in Sessions |-> <<>>]
    /\ ncaptures = 0
    /\ nstarts = 0
    /\ cpc = "idle"
    /\ success = FALSE
    /\ ret = [line |-> 0, val |-> TRUE]
    /\ joinAlive = FALSE
    /\ wrAfterSet = [t \in Sessions |-> 0]
    /\ reacted = FALSE
    /\ is_stopped = [t \in Sessions |-> FALSE]
    /\ filename = "recording.mp4"

\* Lines 105-111, fps apart.
RecorderFields ==
    /\ RecorderParts
    /\ region = make_even_dimensions(Region(0, 0, 5, 3))

RecorderInit ==
    /\ RecorderFields
    /\ fps = 30

Init ==
    /\ RecorderInit
    /\ RegionIdle
    /\ AppIdle
    /\ PaceIdle
    /\ VidIdle

(***************************************************************************)
(* Region on its own: the arguments are chosen, Region(...) is called, and *)
(* make_even_dimensions is called on the Region it gave.                   *)
(***************************************************************************)
Dims == -1..MaxDim

RegionInit ==
    /\ args \in Dims \X Dims \X Dims \X Dims
    /\ obj = Unset
    /\ even = Unset
    /\ RecorderInit
    /\ AppIdle
    /\ PaceIdle
    /\ VidIdle

\* Region(x, y, width, height), lines 33-46.
Construct ==
    /\ obj = Unset
    /\ obj' = Region(args[1], args[2], args[3], args[4])
    /\ UNCHANGED <<args, even>>
    /\ UNCHANGED <<recVars, appVars, pace, vid>>

\* obj.make_even_dimensions(), lines 53-60; obj itself is not assigned.
MakeEven ==
    /\ obj # Unset
    /\ obj # ValueError
    /\ even = Unset
    /\ even' = make_even_dimensions(obj)
    /\ UNCHANGED <<args, obj>>
    /\ UNCHANGED <<recVars, appVars, pace, vid>>

RegionNext == Construct \/ MakeEven

RegionSpec == RegionInit /\ [][RegionNext]_vars

(***************************************************************************)
(* _record_loop in time.  The clock (time.perf_counter) counts ticks; one   *)
(* thread runs the loop and nothing cancels it.  A cycle is the work        *)
(* (capture, conversion, write: lines 173-192), which takes some ticks,     *)
(* then the pacing step (lines 195-203), which sleeps to the deadline or    *)
(* resets it.  A tick holds many clock values: when the deadline and the    *)
(* clock are in the same tick, either of them can be the earlier one, and   *)
(* line 198 can go either way.  pace.written holds the clock values at      *)
(* which the last two writes returned; pace.on_time says that so far every  *)
(* write returned in a tick before its cycle's deadline and every sleep     *)
(* returned at the deadline.                                                *)
(***************************************************************************)
\* Line 195 adding the interval twice.
DeadlineSkipsOne(deadline, interval) == deadline + 2 * interval

\* Line 195: next_frame_time += frame_interval
NextDeadline(deadline, interval) == deadline + interval

\* Line 203 left out: the deadline stays where line 195 put it.
DeadlineKept(now, deadline) == deadline

\* Line 203: next_frame_time = time.perf_counter()
DeadlineReset(now, deadline) == now

\* Lines 167-169: the loop starts, at clock value 0.
PaceStart(f) ==
    [clock |-> 0, next_frame_time |-> 0, frame_interval |-> TicksPerSecond \div f,
     frame_count |-> 0, pc |-> "work", written |-> <<>>, on_time |-> TRUE]

PaceInit ==
    /\ RecorderFields
    /\ fps \in FpsChoices
    /\ pace = PaceStart(fps)
    /\ RegionIdle
    /\ AppIdle
    /\ VidIdle

\* Lines 173-192: a frame is captured, converted and written, d ticks in
\* all, and counted.
Work(d) ==
    /\ pace.pc = "work"
    /\ pace.clock + d <= MaxTime
    /\ pace' = [pace EXCEPT
                 !.clock = @ + d,
                 !.frame_count = @ + 1,
                 !.written = IF Len(@) < 2 THEN Append(@, pace.clock + d)
                             ELSE <<@[2], pace.clock + d>>,
                 !.on_time = @ /\ pace.clock + d <
                     NextDeadline(pace.next_frame_time, pace.frame_interval),
                 !.pc = "pace"]
    /\ UNCHANGED <<recVars, regionVars, appVars, vid>>

\* Lines 195-200: the deadline, moved on by one interval, lies ahead:
\* _precise_sleep returns at the deadline or o ticks after it.  Line 198
\* compares the times themselves, not their ticks: a deadline in the tick
\* the clock is in can still lie ahead.
PaceSleep(o) ==
    /\ pace.pc = "pace"
    /\ NextDeadline(pace.next_frame_time, pace.frame_interval) - pace.clock >= 0
    /\ NextDeadline(pace.next_frame_time, pace.frame_interval) + o <= MaxTime
    /\ pace' = [pace EXCEPT
                 !.next_frame_time = NextDeadline(@, pace.frame_interval),
                 !.clock = NextDeadline(pace.next_frame_time, pace.frame_interval) + o,
                 !.on_time = @ /\ o = 0,
                 !.pc = "work"]
    /\ UNCHANGED <<recVars, regionVars, appVars, vid>>

\* Lines 195-203: the deadline, moved on by one interval, has passed (in
\* the tick the clock is in, or earlier): it is set to the clock, read again
\* e ticks after the read of line 196.
PaceBehind(e) ==
    /\ pace.pc = "pace"
    /\ NextDeadline(pace.next_frame_time, pace.frame_interval) - pace.clock <= 0
    /\ pace.clock + e <= MaxTime
    /\ pace' = [pace EXCEPT
                 !.next_frame_time =
                     DeadlineReset(pace.clock + e, NextDeadline(@, pace.frame_interval)),
                 !.clock = @ + e,
                 !.pc = "work"]
    /\ UNCHANGED <<recVars, regionVars, appVars, vid>>

PaceNext ==
    \/ \E d \in 0..MaxWork : Work(d)
    \/ \E o \in 0..MaxOversleep : PaceSleep(o)
    \/ \E e \in 0..1 : PaceBehind(e)

PaceSpec == PaceInit /\ [][PaceNext]_vars

(***************************************************************************)
(* The sizes of the frames.  A VideoRecorder is made for a region, its      *)
(* writer is opened (lines 118-123), and in every cycle the frame source    *)
(* returns an image of some shape (rows, columns), which lines 183-188      *)
(* resize if it is not the region's before line 191 hands it to write.      *)
(***************************************************************************)
Sides == 1..MaxSide

\* The regions a VideoRecorder can hold: line 106 for every Region that
\* __init__ accepts.
VideoRegions ==
    {make_even_dimensions(Region(x, y, w, h)) :
        x \in 0..1, y \in 0..1, w \in Sides, h \in Sides} \ {ValueError}

\* Line 183 never finding a difference.
NeedsResizeNever(shape, r) == FALSE

\* Line 183: frame_bgr.shape[:2] != (self.region.height, self.region.width)
NeedsResize(shape, r) == shape # <<r.height, r.width>>

\* cv2.resize(src, dsize): dsize is (width, height), the result has
\* dsize[1] rows and dsize[0] columns.
resize(shape, dsize) == <<dsize[2], dsize[1]>>

\* Lines 183-188: the shape of frame_bgr at line 191.
FrameWritten(shape, r) ==
    IF NeedsResize(shape, r) THEN resize(shape, <<r.width, r.height>>)
    ELSE shape

VidInit ==
    /\ RecorderParts
    /\ fps = 30
    /\ region \in VideoRegions
    /\ vid = [pc |-> "made", size |-> None, source |-> None, frame |-> None]
    /\ RegionIdle
    /\ AppIdle
    /\ PaceIdle

\* Lines 118-123: the writer is opened for frames of (width, height).
OpenWriter ==
    /\ vid.pc = "made"
    /\ vid' = [vid EXCEPT !.pc = "open",
                          !.size = <<region.width, region.height>>]
    /\ UNCHANGED <<recVars, regionVars, appVars, pace>>

\* Lines 176-191: one cycle; the source returns h rows of w pixels.
Cycle(h, w) ==
    /\ vid.pc = "open"
    /\ vid' = [vid EXCEPT !.source = <<h, w>>,
                          !.frame = FrameWritten(<<h, w>>, region)]
    /\ UNCHANGED <<recVars, regionVars, appVars, pace>>

VidNext ==
    \/ OpenWriter
    \/ \E h \in Sides : \E w \in Sides : Cycle(h, w)

VidSpec == VidInit /\ [][VidNext]_vars

(***************************************************************************)
(* ScreenCaptureApp, the RegionSelector it creates for a selection and the *)
(* VideoRecorder objects it creates, one per recording.  The handlers run  *)
(* on the one Tk thread; each recorder's loop runs on its own thread, also *)
(* while a handler is between two of its steps or waits: in a dialog       *)
(* (lines 345, 625, 635, 682, 698, 721) or in the join of stop_recording   *)
(* (line 152).  ui is where the Tk thread is.  A recorder is kept as what  *)
(* the application can make of it: its thread ("none", "alive", "done",    *)
(* "failed"), its stop_event, its writer ("none", "open", "released") and  *)
(* whether stop_recording has been called on it.                           *)
(***************************************************************************)
min(a, b) == IF a <= b THEN a ELSE b

abs(a) == IF a < 0 THEN -a ELSE a

\* The pointer coordinates events arrive with.
Coords == {(k * MinSelection) \div 2 : k \in 0..MaxGrid}

Points == Coords \X Coords

\* Lines 113-134 on a new VideoRecorder: Thread.start() has returned, or the
\* call has failed with the writer it opened released by _cleanup and no
\* thread running.
StartedRecorder(ok) ==
    IF ok
    THEN [thread |-> "alive", stop_event |-> FALSE, writer |-> "open",
          stopped |-> FALSE]
    ELSE [thread |-> "none", stop_event |-> FALSE, writer |-> "released",
          stopped |-> FALSE]

\* The Tk thread is in mainloop and runs no handler.  The dialogs of
\* tkinter.messagebox are modal: while a handler waits in one, no other
\* handler of the application is run; nor is one run while a handler waits
\* in join.
InMainLoop ==
    /\ ~finished
    /\ ui = "main"

\* Handlers of the main window run when it is shown.
UIReady ==
    /\ InMainLoop
    /\ root = "normal"

\* Lines 593-603 / 640-650, then 252-257: the handler passes its state test,
\* the selector is created with callback m and its overlay comes up.
SelectionStarted(m) ==
    /\ state' = "SELECTING"
    /\ root' = "withdrawn"
    /\ mode' = m
    /\ window' = TRUE
    /\ start_pos' = None
    /\ rect_id' = FALSE
    /\ warned' = FALSE
    /\ calls' = 0
    /\ UNCHANGED <<recorder, recs, nrec, finished, ui, ctx, stop_ok>>
    /\ UNCHANGED <<recVars, regionVars, pace, vid>>

\* The same, with start_selection failing (lines 258-260): _cleanup(None)
\* runs, so the callback is invoked with None before the handler returns.
SelectionStartFails(m) ==
    /\ state' = "IDLE"
    /\ root' = "normal"
    /\ mode' = m
    /\ window' = FALSE
    /\ start_pos' = None
    /\ rect_id' = FALSE
    /\ warned' = FALSE
    /\ calls' = 1
    /\ UNCHANGED <<recorder, recs, nrec, finished, ui, ctx, stop_ok>>
    /\ UNCHANGED <<recVars, regionVars, pace, vid>>

\* Lines 593-638: _take_screenshot (button or Control-s).
TakeScreenshot ==
    /\ UIReady
    /\ state = "IDLE"
    /\ SelectionStarted("screenshot") \/ SelectionStartFails("screenshot")

\* Lines 640-685: _start_recording (button or Control-r).
StartRecording ==
    /\ UIReady
    /\ state = "IDLE"
    /\ nrec < MaxRecordings
    /\ SelectionStarted("recording") \/ SelectionStartFails("recording")

\* The overlay's bindings deliver events while the overlay exists.
OverlayUp ==
    /\ InMainLoop
    /\ window

\* Lines 293-298.
OnPress(p) ==
    /\ OverlayUp
    /\ start_pos' = p
    /\ rect_id' = FALSE
    /\ UNCHANGED <<state, recorder, recs, nrec, root, finished, mode, window,
                   warned, calls, ui, ctx, stop_ok>>
    /\ UNCHANGED <<recVars, regionVars, pace, vid>>

\* Lines 300-316.
OnDrag(p) ==
    /\ OverlayUp
    /\ start_pos # None
    /\ rect_id' = TRUE
    /\ UNCHANGED <<state, recorder, recs, nrec, root, finished, mode, window,
                   start_pos, warned, calls, ui, ctx, stop_ok>>
    /\ UNCHANGED <<recVars, regionVars, pace, vid>>

\* Lines 324-336: the Region of a release at p after a press at start_pos.
Selected(p) ==
    Region(min(start_pos[1], p[1]), min(start_pos[2], p[2]),
           abs(p[1] - start_pos[1]), abs(p[2] - start_pos[2]))

\* Lines 331-339 raise: the Region is refused, or is under 10 x 10.
SelectionRefused(p) ==
    IF Selected(p) = ValueError THEN TRUE
    ELSE Selected(p).width < MinSelection \/ Selected(p).height < MinSelection

\* _cleanup leaving the overlay as it is.
WindowKept(w) == w

\* Lines 359-366: self.window after _cleanup has destroyed and forgotten it.
WindowTornDown(w) == FALSE

\* Lines 357-372: RegionSelector._cleanup: the window, if there is one, is
\* destroyed and forgotten, then the callback is invoked; lines 606-607 /
\* 653-654: the callback shows the main window again.
SelectorCleanup ==
    /\ window' = WindowTornDown(window)
    /\ calls' = calls + 1
    /\ root' = "normal"

\* Lines 608-613 / 656-660: the callback was given None.
SelectionCancelled ==
    /\ state' = "IDLE"
    /\ UNCHANGED <<recorder, recs, nrec>>

\* Lines 608-625 / 632-635: on_selection of _take_screenshot with a Region:
\* the screenshot is taken and saved, or that fails; either way the handler
\* then waits in a dialog.
ScreenshotSelected ==
    /\ state' = "IDLE"
    /\ ui' = "shot"
    /\ UNCHANGED <<recorder, recs, nrec>>

\* Lines 662-668 and 113-134, or 113-141 and 674-682: on_selection of
\* _start_recording with a Region.  A VideoRecorder is made and
\* start_recording called on it: either Thread.start() has returned (the
\* thread runs, the state is still SELECTING), or the call failed and
\* returned False, and the handler waits in the error dialog.
RecordingSelected(ok) ==
    /\ nrec' = nrec + 1
    /\ recorder' = nrec + 1
    /\ recs' = [recs EXCEPT ![nrec + 1] = StartedRecorder(ok)]
    /\ state' = IF ok THEN state ELSE "IDLE"
    /\ ui' = IF ok THEN "launched" ELSE "startfailed"

\* Lines 320-322: a release with no press before it.
OnReleaseNoPress ==
    /\ OverlayUp
    /\ start_pos = None
    /\ SelectorCleanup
    /\ SelectionCancelled
    /\ UNCHANGED <<finished, mode, start_pos, rect_id, warned, ui, ctx, stop_ok>>
    /\ UNCHANGED <<recVars, regionVars, pace, vid>>

\* Lines 324-341: a release that selects a Region.
OnReleaseRegion(p, ok) ==
    /\ OverlayUp
    /\ start_pos # None
    /\ ~SelectionRefused(p)
    /\ SelectorCleanup
    /\ IF mode = "screenshot" THEN ScreenshotSelected
                              ELSE RecordingSelected(ok)
    /\ UNCHANGED <<finished, mode, start_pos, rect_id, warned, ctx, stop_ok>>
    /\ UNCHANGED <<recVars, regionVars, pace, vid>>

\* Lines 135-136 and 669-673: start_recording returns True; the state
\* becomes RECORDING and the handler returns.
RecordingStarted ==
    /\ ~finished
    /\ ui = "launched"
    /\ state' = "RECORDING"
    /\ ui' = "main"
    /\ UNCHANGED <<recorder, recs, nrec, root, finished, mode, window,
                   start_pos, rect_id, warned, calls, ctx, stop_ok>>
    /\ UNCHANGED <<recVars, regionVars, pace, vid>>

\* Lines 682-683: the error dialog of a failed start is dismissed.
StartErrorClosed ==
    /\ ~finished
    /\ ui = "startfailed"
    /\ ui' = "main"
    /\ UNCHANGED <<state, recorder, recs, nrec, root, finished, mode, window,
                   start_pos, rect_id, warned, calls, ctx, stop_ok>>
    /\ UNCHANGED <<recVars, regionVars, pace, vid>>

\* Lines 625-630 / 635-636: the dialog after a screenshot is dismissed.
ScreenshotClosed ==
    /\ ~finished
    /\ ui = "shot"
    /\ ui' = "main"
    /\ UNCHANGED <<state, recorder, recs, nrec, root, finished, mode, window,
                   start_pos, rect_id, warned, calls, ctx, stop_ok>>
    /\ UNCHANGED <<recVars, regionVars, pace, vid>>

\* Lines 324-345: a release that is refused: the handler shows the warning
\* and waits in it, the overlay still up.
OnReleaseRefused(p) ==
    /\ OverlayUp
    /\ start_pos # None
    /\ SelectionRefused(p)
    /\ ui' = "warning"
    /\ warned' = TRUE
    /\ UNCHANGED <<state, recorder, recs, nrec, root, finished, mode, window,
                   start_pos, rect_id, calls, ctx, stop_ok>>
    /\ UNCHANGED <<recVars, regionVars, pace, vid>>

\* Lines 345-346: the warning is dismissed and the handler goes on.
WarningClosed ==
    /\ ~finished
    /\ ui = "warning"
    /\ SelectorCleanup
    /\ SelectionCancelled
    /\ ui' = "main"
    /\ UNCHANGED <<finished, mode, start_pos, rect_id, warned, ctx, stop_ok>>
    /\ UNCHANGED <<recVars, regionVars, pace, vid>>

\* Lines 348-355: Escape.
OnCancel ==
    /\ OverlayUp
    /\ SelectorCleanup
    /\ SelectionCancelled
    /\ UNCHANGED <<finished, mode, start_pos, rect_id, warned, ui, ctx, stop_ok>>
    /\ UNCHANGED <<recVars, regionVars, pace, vid>>

\* Lines 143-146: caller c calls stop_recording on the recorder.  With no
\* thread alive it returns True at once: c goes on to its dialog (line 698)
\* or, in run, to line 742.  With the thread alive it goes on to line 148.
StopCall(c) ==
    /\ recs' = [recs EXCEPT ![recorder].stopped = TRUE]
    /\ ctx' = c
    /\ stop_ok' = (recs[recorder].thread # "alive")
    /\ ui' = IF recs[recorder].thread = "alive" THEN "stopping"
             ELSE IF c = "exit" THEN "released" ELSE "saved"

\* Lines 687-695: _stop_recording (button).
StopRecording ==
    /\ UIReady
    /\ state = "RECORDING"
    /\ recorder # 0
    /\ StopCall("stop")
    /\ UNCHANGED <<state, recorder, nrec, root, finished, mode, window,
                   start_pos, rect_id, warned, calls>>
    /\ UNCHANGED <<recVars, regionVars, pace, vid>>

\* Lines 148-152: the event is set and join is entered.
StopSet ==
    /\ ~finished
    /\ ui = "stopping"
    /\ recs' = [recs EXCEPT ![recorder].stop_event = TRUE]
    /\ ui' = "joining"
    /\ UNCHANGED <<state, recorder, nrec, root, finished, mode, window,
                   start_pos, rect_id, warned, calls, ctx, stop_ok>>
    /\ UNCHANGED <<recVars, regionVars, pace, vid>>

\* Lines 152-153: join returns, the thread having ended or the 5 seconds
\* being over, and is_alive() is read.
JoinOver ==
    /\ ~finished
    /\ ui = "joining"
    /\ stop_ok' = (recs[recorder].thread # "alive")
    /\ ui' = "joined"
    /\ UNCHANGED <<state, recorder, recs, nrec, root, finished, mode, window,
                   start_pos, rect_id, warned, calls, ctx>>
    /\ UNCHANGED <<recVars, regionVars, pace, vid>>

\* Lines 154-163 and 229-238: _cleanup releases the writer and
\* stop_recording returns success; on True, lines 696-698 show the dialog.
StopRelease ==
    /\ ~finished
    /\ ui = "joined"
    /\ recs' = [recs EXCEPT ![recorder].writer = "released"]
    /\ ui' = IF stop_ok /\ ctx # "exit" THEN "saved" ELSE "released"
    /\ UNCHANGED <<state, recorder, nrec, root, finished, mode, window,
                   start_pos, rect_id, warned, calls, ctx, stop_ok>>
    /\ UNCHANGED <<recVars, regionVars, pace, vid>>

\* Lines 703-716 (the dialog of line 698 dismissed, or after line 706): the
\* finally clause of _stop_recording resets recorder and state; called from
\* _on_closing, line 727 then destroys the main window.
StopFinish ==
    /\ ~finished
    /\ ui \in {"saved", "released"}
    /\ ctx \in {"stop", "close"}
    /\ recorder' = 0
    /\ state' = "IDLE"
    /\ root' = IF ctx = "close" THEN "destroyed" ELSE root
    /\ ui' = "main"
    /\ ctx' = "none"
    /\ stop_ok' = FALSE
    /\ UNCHANGED <<recs, nrec, finished, mode, window, start_pos, rect_id,
                   warned, calls>>
    /\ UNCHANGED <<recVars, regionVars, pace, vid>>

\* Lines 718-724: _on_closing while RECORDING asks for confirmation.
OnClosingRecording ==
    /\ UIReady
    /\ state = "RECORDING"
    /\ ui' = "confirm"
    /\ UNCHANGED <<state, recorder, recs, nrec, root, finished, mode, window,
                   start_pos, rect_id, warned, calls, ctx, stop_ok>>
    /\ UNCHANGED <<recVars, regionVars, pace, vid>>

\* Line 721: the user answers no.
ConfirmNo ==
    /\ ~finished
    /\ ui = "confirm"
    /\ ui' = "main"
    /\ UNCHANGED <<state, recorder, recs, nrec, root, finished, mode, window,
                   start_pos, rect_id, warned, calls, ctx, stop_ok>>
    /\ UNCHANGED <<recVars, regionVars, pace, vid>>

\* Lines 721-726 and 687-695: the user answers yes: _stop_recording is
\* called; with no recorder it returns at line 690 and line 727 follows.
ConfirmYes ==
    /\ ~finished
    /\ ui = "confirm"
    /\ IF recorder # 0
       THEN /\ StopCall("close")
            /\ UNCHANGED root
       ELSE /\ root' = "destroyed"
            /\ ui' = "main"
            /\ UNCHANGED <<recs, ctx, stop_ok>>
    /\ UNCHANGED <<state, recorder, nrec, finished, mode, window, start_pos,
                   rect_id, warned, calls>>
    /\ UNCHANGED <<recVars, regionVars, pace, vid>>

\* Lines 718-729: _on_closing in another state.
OnClosingOther ==
    /\ UIReady
    /\ state # "RECORDING"
    /\ root' = "destroyed"
    /\ UNCHANGED <<state, recorder, recs, nrec, finished, mode, window,
                   start_pos, rect_id, warned, calls, ui, ctx, stop_ok>>
    /\ UNCHANGED <<recVars, regionVars, pace, vid>>

\* Lines 739-742: mainloop is over.  With a recorder set, stop_recording is
\* called on it; with none, run logs and returns.
RunFinally ==
    /\ IF recorder # 0
       THEN /\ StopCall("exit")
            /\ UNCHANGED finished
       ELSE /\ finished' = TRUE
            /\ UNCHANGED <<recs, ui, ctx, stop_ok>>
    /\ UNCHANGED <<state, recorder, nrec, root, mode, window, start_pos,
                   rect_id, warned, calls>>
    /\ UNCHANGED <<recVars, regionVars, pace, vid>>

\* Lines 733-741: mainloop returns, the main window being destroyed.
RunReturns ==
    /\ InMainLoop
    /\ root = "destroyed"
    /\ RunFinally

\* Lines 733-741: mainloop is left by KeyboardInterrupt or another error.
RunInterrupted ==
    /\ InMainLoop
    /\ root # "destroyed"
    /\ RunFinally

\* Line 742: stop_recording has returned to run; run logs and returns.
RunEnds ==
    /\ ~finished
    /\ ui = "released"
    /\ ctx = "exit"
    /\ finished' = TRUE
    /\ UNCHANGED <<state, recorder, recs, nrec, root, mode, window,
                   start_pos, rect_id, warned, calls, ui, ctx, stop_ok>>
    /\ UNCHANGED <<recVars, regionVars, pace, vid>>

\* Lines 205-208 in recorder i's thread: an error ends the loop.
RecorderLoopFails(i) ==
    /\ ~finished
    /\ recs[i].thread = "alive"
    /\ recs' = [recs EXCEPT ![i].thread = "failed"]
    /\ UNCHANGED <<state, recorder, nrec, root, finished, mode, window,
                   start_pos, rect_id, warned, calls, ui, ctx, stop_ok>>
    /\ UNCHANGED <<recVars, regionVars, pace, vid>>

\* Lines 172, 207-208 in recorder i's thread: the event is seen set, the
\* loop ends.
RecorderLoopExits(i) ==
    /\ ~finished
    /\ recs[i].thread = "alive"
    /\ recs[i].stop_event
    /\ recs' = [recs EXCEPT ![i].thread = "done"]
    /\ UNCHANGED <<state, recorder, nrec, root, finished, mode, window,
                   start_pos, rect_id, warned, calls, ui, ctx, stop_ok>>
    /\ UNCHANGED <<recVars, regionVars, pace, vid>>

AppInit ==
    /\ AppIdle
    /\ RecorderInit
    /\ RegionIdle
    /\ PaceIdle
    /\ VidIdle

AppNext ==
    \/ TakeScreenshot
    \/ StartRecording
    \/ \E p \in Points : OnPress(p)
    \/ \E p \in Points : OnDrag(p)
    \/ OnReleaseNoPress
    \/ \E p \in Points : \E ok \in BOOLEAN : OnReleaseRegion(p, ok)
    \/ RecordingStarted
    \/ StartErrorClosed
    \/ ScreenshotClosed
    \/ \E p \in Points : OnReleaseRefused(p)
    \/ WarningClosed
    \/ OnCancel
    \/ StopRecording
    \/ StopSet
    \/ JoinOver
    \/ StopRelease
    \/ StopFinish
    \/ OnClosingRecording
    \/ ConfirmNo
    \/ ConfirmYes
    \/ OnClosingOther
    \/ RunReturns
    \/ RunInterrupted
    \/ RunEnds
    \/ \E i \in Recorders : RecorderLoopFails(i)
    \/ \E i \in Recorders : RecorderLoopExits(i)

AppSpec == AppInit /\ [][AppNext]_vars

AppTypeOK ==
    /\ state \in {"IDLE", "SELECTING", "RECORDING"}
    /\ recorder \in 0..MaxRecordings
    /\ nrec \in 0..MaxRecordings
    /\ root \in {"normal", "withdrawn", "destroyed"}
    /\ finished \in BOOLEAN
    /\ mode \in {"none", "screenshot", "recording"}
    /\ window \in BOOLEAN
    /\ start_pos \in Points \cup {None}
    /\ rect_id \in BOOLEAN
    /\ warned \in BOOLEAN
    /\ calls \in 0..1
    /\ ui \in {"main", "warning", "shot", "launched", "startfailed",
               "confirm", "stopping", "joining", "joined", "saved",
               "released"}
    /\ ctx \in {"none", "stop", "close", "exit"}
    /\ stop_ok \in BOOLEAN
    /\ ui \in {"stopping", "joining", "joined", "saved", "released"}
            <=> ctx # "none"
    /\ ctx # "none" => recorder # 0
    /\ \A i \in Recorders :
        /\ recs[i].thread \in {"none", "alive", "done", "failed"}
        /\ recs[i].writer \in {"none", "open", "released"}
        /\ recs[i].stop_event \in BOOLEAN
        /\ recs[i].stopped \in BOOLEAN
        /\ i > nrec => recs[i] = NoRecorder

(***************************************************************************)
(* _cleanup: release the writer if there is one, then forget it.           *)
(***************************************************************************)
\* Lines 231-236: the release counts after _cleanup has run with self.writer = w.
ReleaseOf(rel, w) ==
    IF w # 0 THEN [rel EXCEPT ![w] = @ + 1] ELSE rel

\* Lines 231-236 of _cleanup: when self.writer is not None, release() is
\* called on it (and logged); self.writer still refers to the writer.
CleanupRelease == releases' = ReleaseOf(releases, writer)

\* Line 238 of _cleanup: self.writer = None
CleanupClear == writer' = 0

(***************************************************************************)
(* start_recording.  The k-th call constructs writer object k and assigns  *)
(* it to self.writer without looking at, or releasing, the writer that was *)
(* there.  The call is a sequence of steps, and a loop that is alive runs  *)
(* between them: the construction of the writer (118-125), the clearing of *)
(* the event (129), the creation of the thread (130-133), its start (134), *)
(* the return of True (135-136); or, on an exception, the release of the   *)
(* writer (139-140, 231-236) and the return of False (238, 141).           *)
(***************************************************************************)
\* A start_recording call is between its steps.
Starting ==
    cpc \in {"opened", "notopened", "cleared", "assigned", "started",
             "notstarted", "failreleased"}

\* Lines 117-125: the writer is constructed and assigned; ok is what
\* isOpened() gives.
StartConstruct(ok) ==
    /\ cpc = "idle"
    /\ nstarts < MaxStarts
    /\ nstarts' = nstarts + 1
    /\ opens' = [opens EXCEPT ![nstarts + 1] = @ + 1]
    /\ writer' = nstarts + 1
    /\ cpc' = IF ok THEN "opened" ELSE "notopened"
    /\ UNCHANGED <<releases, stop_event, recording_thread, success, ret,
                   joinAlive, is_stopped>>
    /\ UNCHANGED loopVars
    /\ UNCHANGED reacted
    /\ UNCHANGED otherVars

\* Lines 125-126, 138-140, 231-236: isOpened() was false: IOError, caught,
\* _cleanup releases whatever self.writer holds.
StartFailOpen ==
    /\ cpc = "notopened"
    /\ CleanupRelease
    /\ cpc' = "failreleased"
    /\ UNCHANGED <<writer, opens, stop_event, recording_thread, nstarts,
                   success, ret, joinAlive, is_stopped>>
    /\ UNCHANGED loopVars
    /\ UNCHANGED reacted
    /\ UNCHANGED otherVars

\* Line 129: the writer is open; the event is cleared.
StartClear ==
    /\ cpc = "opened"
    /\ stop_event' = FALSE
    /\ wrAfterSet' = [t \in Sessions |-> 0]
    /\ cpc' = "cleared"
    /\ UNCHANGED <<writer, opens, releases, recording_thread, nstarts,
                   success, ret, joinAlive, is_stopped>>
    /\ UNCHANGED <<tpc, frame_count, held, tw, wlog, ncaptures>>
    /\ UNCHANGED reacted
    /\ UNCHANGED otherVars

\* Lines 130-133: the Thread object is created and assigned; it does not
\* run yet.
StartAssign ==
    /\ cpc = "cleared"
    /\ recording_thread' = nstarts
    /\ cpc' = "assigned"
    /\ UNCHANGED <<writer, opens, releases, stop_event, nstarts, success,
                   ret, joinAlive, is_stopped>>
    /\ UNCHANGED loopVars
    /\ UNCHANGED reacted
    /\ UNCHANGED otherVars

\* Line 134: Thread.start() returns: the thread runs _record_loop.
StartLaunch ==
    /\ cpc = "assigned"
    /\ tpc' = [tpc EXCEPT ![nstarts] = "check"]
    /\ cpc' = "started"
    /\ UNCHANGED <<writer, opens, releases, stop_event, recording_thread,
                   nstarts, success, ret, joinAlive, is_stopped>>
    /\ UNCHANGED <<frame_count, held, tw, wlog, ncaptures, wrAfterSet>>
    /\ UNCHANGED reacted
    /\ UNCHANGED otherVars

\* Lines 135-136: logged; return True.
StartReturn ==
    /\ cpc = "started"
    /\ ret' = [line |-> 136, val |-> TRUE]
    /\ cpc' = "idle"
    /\ UNCHANGED <<writer, opens, releases, stop_event, recording_thread,
                   nstarts, success, joinAlive, is_stopped>>
    /\ UNCHANGED loopVars
    /\ UNCHANGED reacted
    /\ UNCHANGED otherVars

\* Line 134: Thread.start() raises: the Thread object never runs.
StartFailThread ==
    /\ cpc = "assigned"
    /\ tpc' = [tpc EXCEPT ![nstarts] = "unstarted"]
    /\ cpc' = "notstarted"
    /\ UNCHANGED <<writer, opens, releases, stop_event, recording_thread,
                   nstarts, success, ret, joinAlive, is_stopped>>
    /\ UNCHANGED <<frame_count, held, tw, wlog, ncaptures, wrAfterSet>>
    /\ UNCHANGED reacted
    /\ UNCHANGED otherVars

\* Lines 138-140, 231-236: the exception of Thread.start() is caught;
\* _cleanup releases the writer.
StartFailRelease ==
    /\ cpc = "notstarted"
    /\ CleanupRelease
    /\ cpc' = "failreleased"
    /\ UNCHANGED <<writer, opens, stop_event, recording_thread, nstarts,
                   success, ret, joinAlive, is_stopped>>
    /\ UNCHANGED loopVars
    /\ UNCHANGED reacted
    /\ UNCHANGED otherVars

\* Lines 238, 141: self.writer = None; return False.
StartFailReturn ==
    /\ cpc = "failreleased"
    /\ CleanupClear
    /\ ret' = [line |-> 141, val |-> FALSE]
    /\ cpc' = "idle"
    /\ UNCHANGED <<opens, releases, stop_event, recording_thread, nstarts,
                   success, joinAlive, is_stopped>>
    /\ UNCHANGED loopVars
    /\ UNCHANGED reacted
    /\ UNCHANGED otherVars

(***************************************************************************)
(* stop_recording.                                                         *)
(***************************************************************************)
\* Line 145 with the liveness test dropped.
NoLoopRunningNoneOnly == recording_thread = 0

\* Line 145: not self._recording_thread or not self._recording_thread.is_alive()
NoLoopRunning == recording_thread = 0 \/ ~Alive(recording_thread)

\* Line 153 reporting success whatever the thread does.
JoinSuccessAlways == TRUE

\* Line 153: success = not self._recording_thread.is_alive()
JoinSuccess == ~Alive(recording_thread)

\* Lines 145-146: return True at once.
StopNoop ==
    /\ cpc = "idle"
    /\ NoLoopRunning
    /\ ret' = [line |-> 146, val |-> TRUE]
    /\ UNCHANGED <<writer, opens, releases, stop_event, recording_thread,
                   nstarts, cpc, success, joinAlive, is_stopped>>
    /\ UNCHANGED loopVars
    /\ UNCHANGED reacted
    /\ UNCHANGED otherVars

\* Line 145 finds the thread alive: the call goes on to line 148.
StopTest ==
    /\ cpc = "idle"
    /\ ~NoLoopRunning
    /\ cpc' = "stopping"
    /\ UNCHANGED <<writer, opens, releases, stop_event, recording_thread,
                   nstarts, success, ret, joinAlive, is_stopped>>
    /\ UNCHANGED loopVars
    /\ reacted' = FALSE
    /\ UNCHANGED otherVars

\* Lines 148-152: logged; the event is set and join is entered.
StopSignal ==
    /\ cpc = "stopping"
    /\ stop_event' = TRUE
    /\ cpc' = "joining"
    /\ UNCHANGED <<writer, opens, releases, recording_thread, nstarts,
                   success, ret, joinAlive, is_stopped>>
    /\ UNCHANGED loopVars
    /\ UNCHANGED reacted
    /\ UNCHANGED otherVars

\* Lines 152-153: join returns, because the thread ended or because the
\* timeout ran out, and is_alive() is read.
JoinReturn ==
    /\ cpc = "joining"
    /\ success' = JoinSuccess
    /\ joinAlive' = Alive(recording_thread)
    /\ cpc' = "cleanup"
    /\ UNCHANGED <<writer, opens, releases, stop_event, recording_thread,
                   nstarts, ret, is_stopped>>
    /\ UNCHANGED loopVars
    /\ reacted' = FALSE
    /\ UNCHANGED otherVars

\* Line 152 raises (the timeout is not one join can wait for): control goes
\* to line 159.  marks: the wait on the thread's lock raised, and join has
\* marked the running thread as stopped; otherwise join raised before it
\* came to the wait.
JoinRaises(marks) ==
    /\ cpc = "joining"
    /\ is_stopped' = IF marks /\ Running(recording_thread)
                     THEN [is_stopped EXCEPT ![recording_thread] = TRUE]
                     ELSE is_stopped
    /\ cpc' = "except"
    /\ UNCHANGED <<writer, opens, releases, stop_event, recording_thread,
                   nstarts, success, ret, joinAlive>>
    /\ UNCHANGED loopVars
    /\ reacted' = FALSE
    /\ UNCHANGED otherVars

\* Lines 154-158, 162-163, 231-236: the value of success is taken for the
\* return; the finally clause runs _cleanup, which releases the writer.
StopCleanup ==
    /\ cpc = "cleanup"
    /\ CleanupRelease
    /\ cpc' = "stopreleased"
    /\ UNCHANGED <<writer, opens, stop_event, recording_thread, nstarts,
                   success, ret, joinAlive, is_stopped>>
    /\ UNCHANGED loopVars
    /\ UNCHANGED reacted
    /\ UNCHANGED otherVars

\* Lines 238, 158: self.writer = None; success is returned.
StopReturn ==
    /\ cpc = "stopreleased"
    /\ CleanupClear
    /\ ret' = [line |-> 158, val |-> success]
    /\ success' = FALSE
    /\ joinAlive' = FALSE
    /\ cpc' = "idle"
    /\ UNCHANGED <<opens, releases, stop_event, recording_thread, nstarts,
                   is_stopped>>
    /\ UNCHANGED loopVars
    /\ UNCHANGED reacted
    /\ UNCHANGED otherVars

\* Lines 159-163, 231-236: the exception of join is caught and logged; the
\* finally clause runs _cleanup, which releases the writer.
StopExcept ==
    /\ cpc = "except"
    /\ CleanupRelease
    /\ cpc' = "exceptreleased"
    /\ UNCHANGED <<writer, opens, stop_event, recording_thread, nstarts,
                   success, ret, joinAlive, is_stopped>>
    /\ UNCHANGED loopVars
    /\ UNCHANGED reacted
    /\ UNCHANGED otherVars

\* Lines 238, 161: self.writer = None; False is returned.
StopExceptReturn ==
    /\ cpc = "exceptreleased"
    /\ CleanupClear
    /\ ret' = [line |-> 161, val |-> FALSE]
    /\ cpc' = "idle"
    /\ UNCHANGED <<opens, releases, stop_event, recording_thread, nstarts,
                   success, joinAlive, is_stopped>>
    /\ UNCHANGED loopVars
    /\ UNCHANGED reacted
    /\ UNCHANGED otherVars

(***************************************************************************)
(* _record_loop, one thread t.  A cycle is the loop test (172), the        *)
(* screenshot (176), the conversion (177-188), the write (191) and the     *)
(* count and pacing (192-203); other threads run between them.  A thread   *)
(* at "capture" is between the loop test and the write call: held[t] is 0  *)
(* until the screenshot has returned and the screenshot's number after.    *)
(* A thread that has left the loop logs (205-208) before it ends, and the  *)
(* caller runs in between.                                                 *)
(***************************************************************************)
\* Line 192: frame_count += 1
Counted(n) == n + 1

\* The loop test reading no flag.
LoopContinuesAlways == TRUE

\* Line 172: while not self.stop_event.is_set()
LoopContinues == ~stop_event

\* A cv2.VideoWriter stores the frames written to it while it is open:
\* isOpened() was true and release() has not been called.
Stores(w) ==
    /\ releases[w] = 0
    /\ ~(cpc = "notopened" /\ w = nstarts)

\* A step of thread t is recorded when a stop_recording call is past its
\* test of line 145 and has not yet read is_alive() at line 153.
Reacted(t) ==
    reacted \/ (cpc \in {"stopping", "joining"} /\ t = recording_thread)

\* Line 172, flag clear: begin a cycle and call pyautogui.screenshot.
LoopEnter(t) ==
    /\ tpc[t] = "check"
    /\ LoopContinues
    /\ ncaptures + Cardinality({u \in Sessions :
                        tpc[u] = "capture" /\ held[u] = 0}) < MaxFrames
    /\ tpc' = [tpc EXCEPT ![t] = "capture"]
    /\ UNCHANGED <<frame_count, held, tw, wlog, ncaptures, wrAfterSet>>
    /\ UNCHANGED callerVars
    /\ reacted' = Reacted(t)
    /\ UNCHANGED otherVars

\* Line 172, flag set: the loop is left; lines 207-208 are still to run.
LoopExit(t) ==
    /\ tpc[t] = "check"
    /\ ~LoopContinues
    /\ tpc' = [tpc EXCEPT ![t] = "exiting"]
    /\ wrAfterSet' = [wrAfterSet EXCEPT ![t] = 0]
    /\ UNCHANGED <<frame_count, held, tw, wlog, ncaptures>>
    /\ UNCHANGED callerVars
    /\ reacted' = Reacted(t)
    /\ UNCHANGED otherVars

\* Lines 207-208 after the loop was left at line 172: frame_count is logged
\* and _record_loop returns.
LoopReturns(t) ==
    /\ tpc[t] = "exiting"
    /\ tpc' = [tpc EXCEPT ![t] = "done"]
    /\ UNCHANGED <<frame_count, held, tw, wlog, ncaptures, wrAfterSet>>
    /\ UNCHANGED callerVars
    /\ reacted' = Reacted(t)
    /\ UNCHANGED otherVars

\* Lines 205-208 after an exception: the error and frame_count are logged
\* and _record_loop returns.
LoopFails(t) ==
    /\ tpc[t] = "failing"
    /\ tpc' = [tpc EXCEPT ![t] = "failed"]
    /\ UNCHANGED <<frame_count, held, tw, wlog, ncaptures, wrAfterSet>>
    /\ UNCHANGED callerVars
    /\ reacted' = Reacted(t)
    /\ UNCHANGED otherVars

\* Line 176 raises: no screenshot is taken; control goes to line 205.
CaptureFail(t) ==
    /\ tpc[t] = "capture"
    /\ held[t] = 0
    /\ tpc' = [tpc EXCEPT ![t] = "failing"]
    /\ wrAfterSet' = [wrAfterSet EXCEPT ![t] = 0]
    /\ UNCHANGED <<frame_count, held, tw, wlog, ncaptures>>
    /\ UNCHANGED callerVars
    /\ reacted' = Reacted(t)
    /\ UNCHANGED otherVars

\* Line 176: pyautogui.screenshot returns the next screenshot.
Screenshot(t) ==
    /\ tpc[t] = "capture"
    /\ held[t] = 0
    /\ ncaptures' = ncaptures + 1
    /\ held' = [held EXCEPT ![t] = ncaptures + 1]
    /\ UNCHANGED <<tpc, frame_count, tw, wlog, wrAfterSet>>
    /\ UNCHANGED callerVars
    /\ reacted' = Reacted(t)
    /\ UNCHANGED otherVars

\* Lines 177-188 raise (conversion or resize): the screenshot is lost;
\* control goes to line 205.
ConvertFail(t) ==
    /\ tpc[t] = "capture"
    /\ held[t] # 0
    /\ held' = [held EXCEPT ![t] = 0]
    /\ tpc' = [tpc EXCEPT ![t] = "failing"]
    /\ wrAfterSet' = [wrAfterSet EXCEPT ![t] = 0]
    /\ UNCHANGED <<frame_count, tw, wlog, ncaptures>>
    /\ UNCHANGED callerVars
    /\ reacted' = Reacted(t)
    /\ UNCHANGED otherVars

\* Lines 177-191: the frame is converted, self.writer is read and write is
\* called on it.
WriteBegin(t) ==
    /\ tpc[t] = "capture"
    /\ held[t] # 0
    /\ writer # 0
    /\ tw' = [tw EXCEPT ![t] = writer]
    /\ tpc' = [tpc EXCEPT ![t] = "writing"]
    /\ UNCHANGED <<frame_count, held, wlog, ncaptures, wrAfterSet>>
    /\ UNCHANGED callerVars
    /\ reacted' = Reacted(t)
    /\ UNCHANGED otherVars

\* Lines 177-191 with self.writer None: AttributeError; control goes to
\* line 205.
WriteNone(t) ==
    /\ tpc[t] = "capture"
    /\ held[t] # 0
    /\ writer = 0
    /\ held' = [held EXCEPT ![t] = 0]
    /\ tpc' = [tpc EXCEPT ![t] = "failing"]
    /\ wrAfterSet' = [wrAfterSet EXCEPT ![t] = 0]
    /\ UNCHANGED <<frame_count, tw, wlog, ncaptures>>
    /\ UNCHANGED callerVars
    /\ reacted' = Reacted(t)
    /\ UNCHANGED otherVars

\* Lines 191-203: write returns; frame_count += 1; the thread waits for the
\* next deadline (or resets it) and is back at the loop test.  A writer
\* that is not open stores nothing.
WriteEnd(t) ==
    /\ tpc[t] = "writing"
    /\ wlog' = IF Stores(tw[t])
               THEN [wlog EXCEPT ![tw[t]] = Append(@, held[t])]
               ELSE wlog
    /\ frame_count' = [frame_count EXCEPT ![t] = Counted(@)]
    /\ wrAfterSet' = [wrAfterSet EXCEPT ![t] = IF stop_event THEN @ + 1 ELSE @]
    /\ held' = [held EXCEPT ![t] = 0]
    /\ tw' = [tw EXCEPT ![t] = 0]
    /\ tpc' = [tpc EXCEPT ![t] = "check"]
    /\ UNCHANGED ncaptures
    /\ UNCHANGED callerVars
    /\ reacted' = Reacted(t)
    /\ UNCHANGED otherVars

\* Line 191 raises inside write: control goes to line 205.
WriteFail(t) ==
    /\ tpc[t] = "writing"
    /\ held' = [held EXCEPT ![t] = 0]
    /\ tw' = [tw EXCEPT ![t] = 0]
    /\ tpc' = [tpc EXCEPT ![t] = "failing"]
    /\ wrAfterSet' = [wrAfterSet EXCEPT ![t] = 0]
    /\ UNCHANGED <<frame_count, wlog, ncaptures>>
    /\ UNCHANGED callerVars
    /\ reacted' = Reacted(t)
    /\ UNCHANGED otherVars

ThreadStep(t) ==
    \/ LoopEnter(t)
    \/ LoopExit(t)
    \/ LoopReturns(t)
    \/ LoopFails(t)
    \/ CaptureFail(t)
    \/ Screenshot(t)
    \/ ConvertFail(t)
    \/ WriteBegin(t)
    \/ WriteNone(t)
    \/ WriteEnd(t)
    \/ WriteFail(t)

Next ==
    \/ \E ok \in BOOLEAN : StartConstruct(ok)
    \/ StartFailOpen
    \/ StartClear
    \/ StartAssign
    \/ StartLaunch
    \/ StartReturn
    \/ StartFailThread
    \/ StartFailRelease
    \/ StartFailReturn
    \/ StopNoop
    \/ StopTest
    \/ StopSignal
    \/ JoinReturn
    \/ \E marks \in BOOLEAN : JoinRaises(marks)
    \/ StopCleanup
    \/ StopReturn
    \/ StopExcept
    \/ StopExceptReturn
    \/ \E t \in Sessions : ThreadStep(t)

Spec == Init /\ [][Next]_vars

\* The threads are scheduled fairly and every capture, write and sleep returns.
FairSpec == Spec /\ \A t \in Sessions : WF_vars(ThreadStep(t))

TypeOK ==
    /\ writer \in 0..MaxStarts
    /\ recording_thread \in 0..MaxStarts
    /\ stop_event \in BOOLEAN
    /\ success \in BOOLEAN
    /\ joinAlive \in BOOLEAN
    /\ nstarts \in 0..MaxStarts
    /\ ncaptures \in 0..MaxFrames
    /\ cpc \in {"idle", "opened", "notopened", "cleared", "assigned",
                 "started", "notstarted", "failreleased", "stopping",
                 "joining",
                 "cleanup", "stopreleased", "except", "exceptreleased"}
    /\ ret.line \in {0, 136, 141, 146, 158, 161}
    /\ ret.val \in BOOLEAN
    /\ \A t \in Sessions :
        /\ tpc[t] \in {"unborn", "unstarted", "check", "capture", "writing",
                        "exiting", "failing", "done", "failed"}
        /\ frame_count[t] \in 0..MaxFrames
        /\ held[t] \in 0..MaxFrames
        /\ tw[t] \in 0..MaxStarts
        /\ opens[t] \in 0..1
        /\ releases[t] \in 0..1
        /\ Len(wlog[t]) <= MaxFrames
        /\ wrAfterSet[t] \in 0..1
        /\ held[t] # 0 => tpc[t] \in {"capture", "writing"}
        /\ tpc[t] = "writing" => held[t] # 0
        /\ is_stopped[t] \in BOOLEAN
        /\ (tpc[t] = "writing") <=> (tw[t] # 0)
    /\ reacted \in BOOLEAN
    /\ reacted => cpc \in {"stopping", "joining"}
    /\ region = [x |-> 0, y |-> 0, width |-> 4, height |-> 2]

(***************************************************************************)
(* Properties.  Writer object t and thread object t are the ones made by   *)
(* the t-th start_recording call.                                          *)
(***************************************************************************)

\* The loop of the last start_recording call has ended, in one of the ways
\* `how`, and a stop_recording call has returned since.
StoppedAfter(how) ==
    /\ cpc = "idle"
    /\ ret.line \in {146, 158}
    /\ recording_thread # 0
    /\ nstarts = recording_thread
    /\ tpc[recording_thread] \in how

\* A stop_recording call has returned True and no call was made since.
StopReturnedTrue ==
    /\ cpc = "idle"
    /\ ret.line \in {146, 158}
    /\ ret.val = TRUE

\* C1: when a stop_recording call has returned True, every loop of the
\* recorder that was started and has ended without an error has had its
\* writer opened exactly once and released exactly once, and every further
\* stop_recording call leaves it so.
C1_StoppedWriterReleasedOnce ==
    StopReturnedTrue =>
        \A t \in Sessions :
            tpc[t] = "done" => (opens[t] = 1 /\ releases[t] = 1)

\* C2: when the loop of the last start_recording call has ended, by
\* cancellation or by a capture or write error, and a stop_recording call
\* has returned after that, the writer opened for that loop has been
\* released exactly once.
C2_LoopExitFinalizesWriter ==
    StoppedAfter({"done", "failed"}) => releases[recording_thread] = 1

\* C3: no writer has been released while the thread started with it is still
\* running, and no writer is released twice.
C3_ReleaseOnlyAfterTermination ==
    \A t \in Sessions :
        /\ Running(t) => releases[t] = 0
        /\ releases[t] <= 1

\* C4: no step of a start_recording call made while a loop of the recorder
\* is running starts a thread, changes self.writer or clears the stop event.
C4_StartWhileRunningIsNoop ==
    [][ ((nstarts' # nstarts \/ Starting) /\ RunningThreads # {})
        => ( /\ \A t \in Sessions : Running(t)' => Running(t)
             /\ writer' = writer
             /\ stop_event' = stop_event ) ]_vars

\* C5: under fair scheduling of the threads, whenever the stop event is set
\* while a loop is running, every running loop eventually ends, unless
\* start_recording clears the event again.
C5_CancelledLoopTerminates ==
    (stop_event /\ RunningThreads # {}) ~> (RunningThreads = {} \/ ~stop_event)

\* C5 witness: a stop_recording timed out in its join, and the loop has
\* ended cleanly afterwards with the event still set.
C5_Witness ==
    /\ stop_event
    /\ cpc = "idle"
    /\ ret = [line |-> 158, val |-> FALSE]
    /\ recording_thread # 0
    /\ tpc[recording_thread] = "done"
    /\ RunningThreads = {}

\* C6: from the moment the stop event is set, a thread gets at most one
\* more frame captured and written, and starts no cycle.
C6_AtMostOneFrameAfterStop ==
    /\ [](\A t \in Sessions : wrAfterSet[t] <= 1)
    /\ [][\A t \in Sessions :
            (stop_event /\ tpc[t] = "check") => tpc'[t] # "capture"]_vars

\* C6 witness: the event was set while a capture was under way; the thread
\* has written that one frame and is back at the loop test.
C6_Witness ==
    \E t \in Sessions :
        /\ stop_event
        /\ tpc[t] = "check"
        /\ wrAfterSet[t] = 1
        /\ frame_count[t] = 2

\* C7: every writer stores frames in the order they were captured, at most
\* one captured frame is waiting to be written at any time, and no two
\* write calls are in progress on the same writer.
C7_SequentialOrderedWrites ==
    /\ \A w \in Sessions : \A i, j \in 1..Len(wlog[w]) :
            i < j => wlog[w][i] < wlog[w][j]
    /\ Cardinality({t \in Sessions : held[t] # 0}) <= 1
    /\ \A t, u \in Sessions :
            (t # u /\ tpc[t] = "writing" /\ tpc[u] = "writing") => tw[t] # tw[u]

\* A stop_recording call returns in this step.
StopReturns ==
    \/ cpc \in {"stopreleased", "exceptreleased"} /\ cpc' = "idle"
    \/ cpc = "idle" /\ cpc' = "idle" /\ ret' # ret /\ ret'.line = 146

\* C8: when stop_recording returns True the loop of its thread is not
\* running; it returns False exactly when it went through the join (the
\* thread was alive at the call) and the thread was still alive when the
\* join was over, or the join raised; and a loop never ends in a step of the
\* caller.
C8_StopReportsTermination ==
    [][ /\ StopReturns =>
            /\ ret'.val = TRUE => ~Running(recording_thread)'
            /\ ret'.val = FALSE <=> (\/ cpc = "stopreleased" /\ joinAlive
                                     \/ cpc = "exceptreleased")
        /\ \A t \in Sessions :
            (Running(t) /\ ~Running(t)') => UNCHANGED callerVars ]_vars

\* The start_recording calls so far that returned False.
FailedStarts ==
    {w \in 1..nstarts : /\ tpc[w] \in {"unborn", "unstarted"}
                        /\ ~(Starting /\ w = nstarts)}

\* C9: a start_recording call that fails returns False through line 141,
\* has started no thread and has released the writer it opened; it leaves
\* the recorder without a writer and, when no loop was running at the call,
\* with no loop running; and the writer it opened never receives a frame.
C9_FailedStartLeavesNotStarted ==
    /\ [](\A w \in FailedStarts :
            /\ wlog[w] = <<>>
            /\ \A t \in Sessions : tw[t] # w
            /\ frame_count[w] = 0
            /\ releases[w] = 1)
    /\ [][ (Starting /\ cpc' = "idle" /\ ret'.val = FALSE)
            => ( /\ ret'.line = 141
                 /\ nstarts \in FailedStarts'
                 /\ \A t \in Sessions : Running(t)' => Running(t)
                 /\ writer' = 0
                 /\ RunningThreads = {} => ~Running(recording_thread)' ) ]_vars

\* A stop_recording call begins in this step.
StopCalled ==
    /\ cpc = "idle"
    /\ \/ cpc' = "stopping"
       \/ ret' # ret /\ ret'.line = 146

\* C10: a stop_recording call made when the recorder's thread is not running
\* (never created, never started, or ended) returns True at once and leaves
\* the writer, its release count, the stop event and the thread handle as
\* they were.
C10_StopWhenNotRunningIsNoop ==
    [][ (StopCalled /\ ~Running(recording_thread))
        => ( /\ ret' = [line |-> 146, val |-> TRUE]
             /\ cpc' = "idle"
             /\ UNCHANGED <<writer, releases, stop_event, recording_thread>> ) ]_vars

\* C10 witness: the loop died of an error while holding its writer, and a
\* stop_recording has returned since: the writer is still there.
C10_Witness ==
    /\ cpc = "idle"
    /\ ret = [line |-> 146, val |-> TRUE]
    /\ recording_thread # 0
    /\ tpc[recording_thread] = "failed"
    /\ writer = recording_thread
    /\ releases[writer] = 0

\* The join of stop_recording returns in this step.  The model counts no
\* time: a join with timeout 0 returns at once, but the thread may run
\* between lines 145, 149, 152 and 153, so every such step is a possible
\* return of join(timeout=0).
JoinEnds == cpc = "joining" /\ cpc' = "cleanup"

\* A stop_recording call that went through the join returns in this step.
StopJoinedReturns == cpc = "stopreleased" /\ cpc' = "idle"

\* C11 as stated: a stop_recording(timeout=0) call on a running loop returns
\* False through line 158 under every interleaving, and no writer is
\* released more than once.
C11_StopZeroReturnsFalse ==
    /\ [](\A w \in Sessions : releases[w] <= 1)
    /\ [][ StopJoinedReturns => ret' = [line |-> 158, val |-> FALSE] ]_vars

\* C11 amended: a stop_recording(timeout=0) call on a running loop returns
\* through line 158 (no exception reaches the caller) the negation of what
\* is_alive() gave at line 153; that is False whenever the thread has taken
\* no step since line 145 found it alive, and True only when the thread
\* ended between lines 145 and 153; and no writer is released more than
\* once.
C11_StopZeroReportsObserved ==
    /\ [](\A w \in Sessions : releases[w] <= 1)
    /\ [][ /\ JoinEnds =>
                /\ success' = ~Alive(recording_thread)
                /\ ~reacted => success' = FALSE
                /\ success' = TRUE => tpc[recording_thread] \in {"done", "failed"}
           /\ StopJoinedReturns => ret' = [line |-> 158, val |-> success] ]_vars

\* C11 witness: the join returned with the thread inside a write call; the
\* call has returned False and released the writer, once, under the thread.
C11_Witness ==
    /\ cpc = "idle"
    /\ ret = [line |-> 158, val |-> FALSE]
    /\ writer = 0
    /\ recording_thread # 0
    /\ tpc[recording_thread] = "writing"
    /\ releases[tw[recording_thread]] = 1

\* C12: the instance is running at most once: once a loop of the instance
\* has ended, no step makes a thread of the instance alive again; and at
\* every moment at most one writer opened by the instance is open.
C12_LifecycleOnce ==
    /\ [](Cardinality({w \in Sessions : opens[w] = 1 /\ releases[w] = 0}) <= 1)
    /\ [][ (\E t \in Sessions : tpc[t] \in {"done", "failed"})
            => (\A u \in Sessions : Running(u)' => Running(u)) ]_vars

\* C13: what the caller of stop_recording observes is the value returned
\* (the recorder keeps no status).  For a loop stopped cleanly that value is
\* True (C1, C8), so a stop_recording call that returns for a loop ended by
\* a capture or write error returns something else.
C13_TerminalConditionsDistinct ==
    [][ (StopReturns /\ recording_thread # 0
            /\ tpc'[recording_thread] = "failed")
        => ret'.val # TRUE ]_vars

RECURSIVE SumOver(_, _)
\* The sum of f[t] over the t in 1..n.
SumOver(f, n) ==
    IF n = 0 THEN 0 ELSE f[n] + SumOver(f, n - 1)

\* The frames stored by the writers 1..n together.
Stored(n) == SumOver([w \in Sessions |-> Len(wlog[w])], n)

\* C14: every frame captured is handed to the writer in the same cycle and
\* counted when the write returns, or ends its loop: the captures made are
\* the frames counted, plus those being converted or inside a write call,
\* plus at most one per failed loop; the frames counted are the frames the
\* writers have stored; a thread holding a frame does nothing but call
\* write with it, finish that write (the frame is appended to the writer's
\* frames and counted) or fail; frame_count changes only so; and a loop
\* that has left its cycle, by failure or cancellation, captures, writes and
\* counts nothing more.
C14_NoFrameDroppedSilently ==
    /\ [](LET counted == SumOver(frame_count, MaxStarts)
              inflight == Cardinality({t \in Sessions : held[t] # 0})
              failed == Cardinality({t \in Sessions :
                                        tpc[t] \in {"failing", "failed"}})
          IN /\ counted + inflight <= ncaptures
             /\ ncaptures <= counted + inflight + failed
             /\ failed = 0 /\ inflight = 0 => counted = ncaptures
             /\ counted = Stored(MaxStarts))
    /\ [][ \A t \in Sessions :
            /\ held[t] # 0 =>
                \/ held'[t] = held[t] /\ tpc'[t] = tpc[t]
                \/ /\ tpc[t] = "capture" /\ tpc'[t] = "writing"
                   /\ held'[t] = held[t]
                   /\ tw'[t] = writer /\ writer # 0
                   /\ frame_count'[t] = frame_count[t]
                \/ /\ tpc[t] = "writing" /\ tpc'[t] = "check"
                   /\ frame_count'[t] = frame_count[t] + 1
                   /\ wlog'[tw[t]] = Append(wlog[tw[t]], held[t])
                \/ tpc'[t] = "failing" /\ frame_count'[t] = frame_count[t]
            /\ frame_count'[t] # frame_count[t] => tpc[t] = "writing"
            /\ tpc[t] \in {"exiting", "done"} => tpc'[t] \in {"exiting", "done"}
            /\ tpc[t] \in {"failing", "failed"} => tpc'[t] \in {"failing", "failed"}
            /\ tpc[t] \in {"exiting", "failing", "done", "failed"} =>
                /\ frame_count'[t] = frame_count[t]
                /\ held'[t] = 0
            /\ (tpc[t] = "capture" /\ held[t] = 0) =>
                \/ held'[t] = 0 /\ tpc'[t] = "capture"
                \/ /\ tpc'[t] = "capture"
                   /\ ncaptures' = ncaptures + 1
                   /\ held'[t] = ncaptures'
                \/ /\ tpc'[t] = "failing"
                   /\ held'[t] = 0
                   /\ ncaptures' = ncaptures ]_vars

\* C16: a step of a background loop changes none of region, fps, filename,
\* nor any other field of the recorder (the foreground reads only the
\* thread's liveness); the foreground changes none of region, fps, filename
\* either, and (start_recording having been called once, see C4 for more)
\* it does not change self.writer while a loop that can still read it is
\* alive: between the contexts only the stop event and the liveness are
\* written by one and read by the other.
C16_SharedStateDiscipline ==
    [][ /\ UNCHANGED <<region, fps, filename>>
        /\ \A t \in Sessions :
            (Running(t) /\ <<tpc[t], held[t]>>' # <<tpc[t], held[t]>>)
                => UNCHANGED <<writer, stop_event, recording_thread>>
        /\ (RunningThreads # {} /\ nstarts = 1 /\ nstarts' = 1)
            => writer' = writer ]_vars

\* C17: for a Region with positive width and height, make_even_dimensions
\* does not fail and gives a Region with the same x and y whose width and
\* height are even, not above the original's and below them by 0 or 1; the
\* original Region is as it was constructed.
C17_MakeEvenTotal ==
    (obj # Unset /\ obj # ValueError /\ even # Unset) =>
        /\ even # ValueError
        /\ even.x = obj.x /\ even.y = obj.y
        /\ even.width % 2 = 0 /\ even.height % 2 = 0
        /\ even.width <= obj.width /\ even.height <= obj.height
        /\ obj.width - even.width \in {0, 1}
        /\ obj.height - even.height \in {0, 1}
        /\ as_tuple(obj) = args

\* C18: Region(x, y, width, height) fails exactly when width <= 0,
\* height <= 0, x < 0 or y < 0; otherwise the Region's fields, and its
\* as_tuple, are the arguments.
C18_RegionValidation ==
    obj # Unset =>
        /\ obj = ValueError <=>
                (args[3] <= 0 \/ args[4] <= 0 \/ args[1] < 0 \/ args[2] < 0)
        /\ obj # ValueError =>
                /\ obj.x = args[1] /\ obj.y = args[2]
                /\ obj.width = args[3] /\ obj.height = args[4]
                /\ as_tuple(obj) = args

\* C18 witness: the smallest Region there is has been constructed.
C18_Witness ==
    /\ args = <<0, 0, 1, 1>>
    /\ obj = [x |-> 0, y |-> 0, width |-> 1, height |-> 1]

\* The recorders of the application whose capture thread is alive.
AliveRecorders == {i \in Recorders : recs[i].thread = "alive"}

\* C15: in every state of the running application at most one capture
\* thread is alive, and exactly one while the state is RECORDING.
C15_OneCaptureThread ==
    ~finished =>
        /\ Cardinality(AliveRecorders) <= 1
        /\ state = "RECORDING" => Cardinality(AliveRecorders) = 1

\* The selector has nothing more to do: its overlay is gone and its
\* handler is not waiting in the warning.
SelectorDone ==
    /\ mode # "none"
    /\ ~window
    /\ ui # "warning"

C21_OnTimeFrameCount ==
    /\ [](pace.on_time /\ pace.pc = "work" =>
            /\ pace.next_frame_time = pace.frame_count * pace.frame_interval
            /\ pace.frame_interval * fps = TicksPerSecond)
    /\ [](pace.on_time /\ pace.pc # "off" =>
            /\ pace.frame_count * TicksPerSecond - fps * pace.clock
                  <= TicksPerSecond
            /\ fps * pace.clock - pace.frame_count * TicksPerSecond
                  <= TicksPerSecond)
    /\ [][ (pace.on_time /\ pace.pc = "pace" /\ pace'.pc = "work") =>
            /\ pace'.next_frame_time = pace.next_frame_time + pace.frame_interval
            /\ pace'.clock >= pace'.next_frame_time ]_vars

\* C21 witness: at 30 frames a second four cycles have run on time.
C21_Witness ==
    /\ pace.on_time
    /\ pace.frame_interval = 4
    /\ pace.frame_count = 4
    /\ pace.clock = 16
    /\ pace.pc = "work"

\* C23: in a run with a single start_recording, whenever the loop comes to
\* line 191 with a captured frame, self.writer is a writer object that has
\* not been released.
C23_NoUseAfterRelease ==
    [][ \A t \in Sessions :
          (nstarts = 1 /\ tpc[t] = "capture" /\ held[t] # 0
                /\ tpc'[t] # "capture")
          => /\ writer # 0
             /\ releases[writer] = 0 ]_vars

\* C22: the writer is opened for the width and height of the recorder's
\* region, both even, and every frame handed to write has exactly that many
\* columns and rows, whatever shape the frame source returned.
C22_FrameHasWriterSize ==
    /\ vid.pc = "open" =>
        /\ vid.size = <<region.width, region.height>>
        /\ vid.size[1] % 2 = 0
        /\ vid.size[2] % 2 = 0
    /\ vid.frame # None => vid.frame = <<vid.size[2], vid.size[1]>>

\* C22 witness: a capture of another shape than the region's was resized
\* and written, for a region that is not square.
C22_Witness ==
    /\ vid.frame # None
    /\ vid.source # vid.frame
    /\ vid.size = <<4, 2>>

\* C24: between the creation of a VideoRecorder and the return of its
\* start_recording apart, the recorder field holds a VideoRecorder exactly
\* when the state is RECORDING, and that recorder's thread was started; a
\* selector exists only in SELECTING and comes up only from IDLE, and a
\* VideoRecorder is created only by the callback of a selection made for a
\* recording; _stop_recording always ends in IDLE with the recorder field
\* cleared.
C24_AppStateDiscipline ==
    /\ [](ui # "launched" =>
            /\ recorder # 0 <=> state = "RECORDING"
            /\ state = "RECORDING" => recs[recorder].thread # "none"
            /\ window => state = "SELECTING")
    /\ [][ /\ (window' /\ ~window) => state = "IDLE"
           /\ nrec' # nrec =>
                 state = "SELECTING" /\ mode = "recording"
                 /\ calls' = calls + 1
           /\ (ctx \in {"stop", "close"} /\ ctx' = "none")
                 => (state' = "IDLE" /\ recorder' = 0)
         ]_vars

\* The application shuts down: the main window is destroyed by _on_closing
\* (window close or Control-q), or mainloop is left by an interrupt or error
\* and run has executed its finally clause.
Shutdown ==
    \/ root # "destroyed" /\ root' = "destroyed"
    \/ root # "destroyed" /\ ~finished /\ finished'

\* C25: on every shutdown path taken in state RECORDING, stop_recording has
\* been invoked on the recorder of that recording when the step is over,
\* and its writer is released.
C25_ShutdownStopsRecording ==
    [][ (Shutdown /\ state = "RECORDING") =>
          /\ recorder # 0
          /\ recs'[recorder].stopped
          /\ recs'[recorder].writer = "released" ]_vars
====
